---- MODULE Spec2Model ----
(***************************************************************************)
(* State-machine model of the ResumeScanner front end:                     *)
(*   ScanResume (page)            file, jobDescription, isLoading, results *)
(*   ResumeUploadComponent (form) dragActive, file, jd                     *)
(*   ResumePreviewComponent       scanPosition and the view it renders     *)
(* together with the scan requests that are in flight towards the          *)
(* external scan service.                                                  *)
(***************************************************************************)
EXTENDS Integers, Sequences, FiniteSets, TLC

\* ------------------------------------------------------------------ bounds
MaxJdLen == 2      \* longest job description typed into the textarea
MaxDrop == 2       \* most files carried by one drop
MaxScans == 2      \* scans started in one behaviour

\* ------------------------------------------------------- program constants
ScanStep == 2      \* setScanPosition(prev + 2)
ScanLimit == 100   \* prev >= 100 ? 0

\* ------------------------------------------------------------------ values
Null == "null"
Undefined == <<"undefined">>

\* Files the user can pick or drop, with their extensions.
Files == {"cv.pdf", "cv.docx", "pic.png"}
Ext == ("cv.pdf" :> ".pdf") @@ ("cv.docx" :> ".docx") @@ ("pic.png" :> ".png")

\* accept=".pdf,.doc,.docx" / "Supports PDF, DOC, DOCX files"
AcceptedExt == {".pdf", ".doc", ".docx"}
Accepts(f) == Ext[f] \in AcceptedExt

\* JSON bodies the service answers with.
ResultData == {"r1", "r2"}

\* Characters of a job description; strings are sequences of characters.
Chars == {" ", "x"}
WhiteSpace == {" "}

\* All sequences over S of length at most n.
RECURSIVE SeqsUpTo(_, _)
SeqsUpTo(S, n) ==
  IF n = 0 THEN {<<>>}
  ELSE LET P == SeqsUpTo(S, n - 1)
       IN  {s : s \in P \cup {Append(t, x) : t \in P, x \in S}}

JdValues == SeqsUpTo(Chars, MaxJdLen)
\* A drop carries distinct files, in the order the browser lists them.
Distinct(fs) == \A i, j \in 1..Len(fs) : i # j => fs[i] # fs[j]
DropLists == {fs : fs \in {gs \in SeqsUpTo(Files, MaxDrop) : Distinct(gs)}}
FileDrops == {fs : fs \in DropLists \ {<<>>}}
\* The file input has no "multiple" attribute and filters by accept.
ChangeLists == SeqsUpTo({f \in Files : Accepts(f)}, 1)
FileChoices == {fs : fs \in ChangeLists \ {<<>>}}

\* String.prototype.trim
RECURSIVE TrimStart(_)
TrimStart(s) ==
  IF s # <<>> /\ Head(s) \in WhiteSpace THEN TrimStart(Tail(s)) ELSE s

RECURSIVE TrimEnd(_)
TrimEnd(s) ==
  IF s # <<>> /\ s[Len(s)] \in WhiteSpace
  THEN TrimEnd(SubSeq(s, 1, Len(s) - 1))
  ELSE s

Trim(s) == TrimEnd(TrimStart(s))

\* ------------------------------------------------------------------- state
VARIABLES
  file,            \* ScanResume: file
  jobDescription,  \* ScanResume: jobDescription
  isLoading,       \* ScanResume: isLoading
  results,         \* ScanResume: results
  dragActive,      \* ResumeUploadComponent: dragActive
  uFile,           \* ResumeUploadComponent: file
  jd,              \* ResumeUploadComponent: jd
  scanPosition,    \* ResumePreviewComponent: scanPosition
  scans,           \* running invocations of scanResume, one per POST
  nSent            \* number of POST requests issued so far

vars == <<file, jobDescription, isLoading, results, dragActive, uFile, jd,
          scanPosition, scans, nSent>>

Init ==
  /\ file = Null
  /\ jobDescription = <<>>
  /\ isLoading = FALSE
  /\ results = Null
  /\ dragActive = FALSE
  /\ uFile = Null
  /\ jd = <<>>
  /\ scanPosition = 0
  /\ scans = {}
  /\ nSent = 0

\* ------------------------------------------------------------- ScanResume
\* scanResume up to its first await: setIsLoading(true), build the form
\* data, issue the POST.
scanResume(resumeFile, jdArg) ==
  /\ isLoading' = TRUE
  /\ scans' = scans \cup {[id |-> nSent + 1, file |-> resumeFile,
                           jd |-> jdArg, pc |-> "fetch",
                           results0 |-> results]}
  /\ nSent' = nSent + 1
  /\ UNCHANGED file

handleFileUpload(uploadedFile, jdArg) ==
  IF jdArg # Undefined
  THEN scanResume(uploadedFile, jdArg)
  ELSE /\ file' = uploadedFile
       /\ UNCHANGED <<isLoading, scans, nSent>>

pageHandleJdChange(v) == jobDescription' = v

\* useEffect on [isLoading] of the preview: setScanPosition(0) when the
\* flag is false after the render.
LoadingEffect == scanPosition' = IF isLoading' THEN scanPosition ELSE 0

\* finally { setIsLoading(false) } and the end of the invocation.
Finally(s) ==
  /\ isLoading' = FALSE
  /\ scans' = scans \ {s}

\* fetch resolved with response.ok: go on to await response.json().
FetchOk(s) ==
  /\ s \in scans /\ s.pc = "fetch"
  /\ scans' = (scans \ {s}) \cup {[s EXCEPT !.pc = "json"]}
  /\ UNCHANGED <<file, jobDescription, isLoading, results, dragActive,
                 uFile, jd, scanPosition, nSent>>

\* fetch resolved with a non-OK response: console.error, finally.
FetchNotOk(s) ==
  /\ s \in scans /\ s.pc = "fetch"
  /\ Finally(s)
  /\ LoadingEffect
  /\ UNCHANGED <<file, jobDescription, results, dragActive, uFile, jd, nSent>>

\* fetch rejected: catch, finally.
FetchThrows(s) ==
  /\ s \in scans /\ s.pc = "fetch"
  /\ Finally(s)
  /\ LoadingEffect
  /\ UNCHANGED <<file, jobDescription, results, dragActive, uFile, jd, nSent>>

\* response.json() resolved: setResults(data), finally.
JsonOk(s, data) ==
  /\ s \in scans /\ s.pc = "json"
  /\ results' = data
  /\ Finally(s)
  /\ LoadingEffect
  /\ UNCHANGED <<file, jobDescription, dragActive, uFile, jd, nSent>>

\* Variant of JsonThrows: setIsLoading(false) sits at the end of the try
\* block instead of in finally, so a rejected response.json() skips it.
JsonThrows_NoFinally(s) ==
  /\ s \in scans /\ s.pc = "json"
  /\ scans' = scans \ {s}
  /\ UNCHANGED <<file, jobDescription, isLoading, results, dragActive, uFile,
                 jd, scanPosition, nSent>>

\* response.json() rejected: catch, finally.
JsonThrows(s) ==
  /\ s \in scans /\ s.pc = "json"
  /\ Finally(s)
  /\ LoadingEffect
  /\ UNCHANGED <<file, jobDescription, results, dragActive, uFile, jd, nSent>>

Settle ==
  \E s \in scans :
    \/ FetchOk(s)
    \/ FetchNotOk(s)
    \/ FetchThrows(s)
    \/ \E data \in ResultData : JsonOk(s, data)
    \/ JsonThrows(s)

\* ---------------------------------------------------- ResumeUploadComponent
DragTypes == {"dragenter", "dragover", "dragleave"}

handleDrag(type) ==
  /\ dragActive' = IF type \in {"dragenter", "dragover"} THEN TRUE
                   ELSE IF type = "dragleave" THEN FALSE
                   ELSE dragActive
  /\ UNCHANGED <<file, jobDescription, isLoading, results, uFile, jd,
                 scanPosition, scans, nSent>>

\* Variant of handleDrop: the drop reports the file together with the job
\* description, onFileUpload(droppedFile, jd).
handleDrop_PassesJd(fs) ==
  /\ dragActive' = FALSE
  /\ IF fs # <<>>
     THEN /\ uFile' = fs[1]
          /\ handleFileUpload(fs[1], jd)
     ELSE UNCHANGED <<uFile, file, isLoading, scans, nSent>>
  /\ UNCHANGED <<jobDescription, results, jd, scanPosition>>

\* Variant of handleDrop: takes the last dropped file, files[files.length-1].
handleDrop_LastFile(fs) ==
  /\ dragActive' = FALSE
  /\ IF fs # <<>>
     THEN /\ uFile' = fs[Len(fs)]
          /\ handleFileUpload(fs[Len(fs)], Undefined)
     ELSE UNCHANGED <<uFile, file, isLoading, scans, nSent>>
  /\ UNCHANGED <<jobDescription, results, jd, scanPosition>>

handleDrop(fs) ==
  /\ dragActive' = FALSE
  /\ IF fs # <<>>
     THEN /\ uFile' = fs[1]
          /\ handleFileUpload(fs[1], Undefined)
     ELSE UNCHANGED <<uFile, file, isLoading, scans, nSent>>
  /\ UNCHANGED <<jobDescription, results, jd, scanPosition>>

\* <input type="file" disabled={isLoading}>
handleChange(fs) ==
  /\ ~isLoading
  /\ IF fs # <<>>
     THEN /\ uFile' = fs[1]
          /\ handleFileUpload(fs[1], Undefined)
     ELSE UNCHANGED <<uFile, file, isLoading, scans, nSent>>
  /\ UNCHANGED <<jobDescription, results, dragActive, jd, scanPosition>>

\* <textarea disabled={isLoading}>
handleJdChange(v) ==
  /\ ~isLoading
  /\ jd' = v
  /\ pageHandleJdChange(v)
  /\ UNCHANGED <<file, isLoading, results, dragActive, uFile, scanPosition,
                 scans, nSent>>

\* Variant of ButtonDisabled: disabled={!file || !jd || isLoading}
ButtonDisabled_NoTrim == uFile = Null \/ jd = <<>> \/ isLoading

\* Variant of ButtonDisabled: disabled={!file || !jd.trim()}
ButtonDisabled_NoLoading == uFile = Null \/ Trim(jd) = <<>>

\* disabled={!file || !jd.trim() || isLoading}
ButtonDisabled == uFile = Null \/ Trim(jd) = <<>> \/ isLoading

\* onClick={() => onFileUpload(file, jd)}
ClickScan ==
  /\ ~ButtonDisabled
  /\ nSent < MaxScans
  /\ handleFileUpload(uFile, jd)
  /\ LoadingEffect
  /\ UNCHANGED <<jobDescription, results, dragActive, uFile, jd>>

\* --------------------------------------------------- ResumePreviewComponent
\* setInterval(() => setScanPosition(prev => prev >= 100 ? 0 : prev + 2), 50)
\* runs while isLoading.
Tick ==
  /\ isLoading
  /\ scanPosition' = IF scanPosition >= ScanLimit THEN 0
                     ELSE scanPosition + ScanStep
  /\ UNCHANGED <<file, jobDescription, isLoading, results, dragActive, uFile,
                 jd, scans, nSent>>

\* Variant of PreviewView: the results branch is tested before isLoading.
PreviewView_ResultsFirst(f, loading, res) ==
  IF f = Null /\ res = Null THEN [kind |-> "placeholder", name |-> Null]
  ELSE IF res # Null THEN [kind |-> "results", name |-> Null]
  ELSE IF loading
    THEN [kind |-> "scanning", name |-> IF f # Null THEN f ELSE "Resume"]
  ELSE IF f # Null /\ ~loading /\ res = Null
    THEN [kind |-> "preview", name |-> f]
  ELSE [kind |-> "none", name |-> Null]

\* Variant of PreviewView: the placeholder test reads !file || !results.
PreviewView_PlaceholderOr(f, loading, res) ==
  IF f = Null \/ res = Null THEN [kind |-> "placeholder", name |-> Null]
  ELSE IF loading
    THEN [kind |-> "scanning", name |-> IF f # Null THEN f ELSE "Resume"]
  ELSE IF res # Null THEN [kind |-> "results", name |-> Null]
  ELSE IF f # Null /\ ~loading /\ res = Null
    THEN [kind |-> "preview", name |-> f]
  ELSE [kind |-> "none", name |-> Null]

\* Which branch of the render function returns, and the file it names.
PreviewView(f, loading, res) ==
  IF f = Null /\ res = Null THEN [kind |-> "placeholder", name |-> Null]
  ELSE IF loading
    THEN [kind |-> "scanning", name |-> IF f # Null THEN f ELSE "Resume"]
  ELSE IF res # Null THEN [kind |-> "results", name |-> Null]
  ELSE IF f # Null /\ ~loading /\ res = Null
    THEN [kind |-> "preview", name |-> f]
  ELSE [kind |-> "none", name |-> Null]

View == PreviewView(file, isLoading, results)

\* ------------------------------------------------------------ specification
Next ==
  \/ \E type \in DragTypes : handleDrag(type)
  \/ \E fs \in DropLists : handleDrop(fs)
  \/ \E fs \in ChangeLists : handleChange(fs)
  \/ \E v \in JdValues : handleJdChange(v)
  \/ ClickScan
  \/ Settle
  \/ Tick

Spec == Init /\ [][Next]_vars

\* The promise of an issued request settles, and its continuation runs.
LiveSpec == Spec /\ WF_vars(Settle)

TypeOK ==
  /\ file \in Files \cup {Null}
  /\ uFile \in Files \cup {Null}
  /\ jd \in JdValues
  /\ jobDescription \in JdValues
  /\ isLoading \in BOOLEAN
  /\ results \in ResultData \cup {Null}
  /\ dragActive \in BOOLEAN
  /\ scanPosition \in 0..ScanLimit
  /\ nSent \in 0..MaxScans

\* ------------------------------------------------------------------ claims
\* A step in which a scan invocation ends without storing results.
FailedSettle(s) == FetchNotOk(s) \/ FetchThrows(s) \/ JsonThrows(s)

\* A request was issued in this step: a scan invocation exists afterwards
\* that did not exist before.
RequestIssued == \E s \in scans' : \A t \in scans : t.id # s.id

\* C1: every click on the Scan button issues exactly one POST carrying the
\* file and the job description the form holds at the click, and no other
\* event (file chosen or dropped, job description edited, drag events,
\* animation ticks, network completions) issues a request.
C1_SingleCall ==
  [][ /\ ClickScan =>
           /\ nSent' = nSent + 1
           /\ \E s \in scans' :
                /\ s \notin scans
                /\ s.file = uFile /\ s.jd = jd /\ s.pc = "fetch"
                /\ scans' = scans \cup {s}
      /\ (RequestIssued \/ nSent' # nSent) => ClickScan
    ]_vars

C1_Witness ==
  /\ nSent = 2
  /\ \E s \in scans : s.id = 2 /\ s.pc = "fetch" /\ s.file = uFile /\ s.jd = jd

\* C2: scanResume is never invoked with a null file or with an empty or
\* whitespace-only job description, and a scan starts only when a file is
\* selected, the job description has a non-whitespace character and no scan
\* is in progress.
C2_ScanInputsValid ==
  /\ [](\A s \in scans : s.file # Null /\ Trim(s.jd) # <<>>)
  /\ [][RequestIssued =>
          uFile # Null /\ Trim(jd) # <<>> /\ ~isLoading]_vars

C2_Witness ==
  \E s \in scans : s.file # Null /\ s.jd # Trim(s.jd) /\ Trim(s.jd) # <<>>

\* C3: at most one scan request is outstanding at any time, and isLoading
\* is true exactly while a request is outstanding.
C3_AtMostOneOutstanding ==
  /\ Cardinality(scans) <= 1
  /\ isLoading <=> scans # {}

C3_Witness == nSent = 2 /\ Cardinality(scans) = 1 /\ isLoading

\* C4: once the request settles (OK, non-OK, thrown, or a failure decoding
\* the JSON body) isLoading becomes false again and the Scan button is
\* usable again.
C4_LoadingEnds == isLoading ~> (~isLoading /\ ~ButtonDisabled)

C4_Witness ==
  /\ nSent >= 1 /\ scans = {}
  /\ ~isLoading /\ ~ButtonDisabled

\* C5: when a scan fails (non-OK response, fetch or JSON decoding throws),
\* results, the selected file and the job description have the values they
\* had before the scan started, and isLoading is false again.
C5_FailedScanKeepsState ==
  [][\A s \in scans :
       FailedSettle(s) =>
         /\ results' = s.results0
         /\ file' = s.file /\ uFile' = s.file
         /\ jd' = s.jd /\ jobDescription' = s.jd
         /\ ~isLoading'
    ]_vars

\* C6: while isLoading is true neither the selected file nor the job
\* description changes.
C6_FormFrozenWhileLoading ==
  [][isLoading =>
       /\ file' = file /\ uFile' = uFile
       /\ jd' = jd /\ jobDescription' = jobDescription
    ]_vars

\* C7: every selected file, chosen or dropped, and every file sent in a
\* scan request is a PDF, DOC or DOCX file.
C7_OnlySupportedFiles ==
  /\ uFile # Null => Accepts(uFile)
  /\ file # Null => Accepts(file)
  /\ \A s \in scans : Accepts(s.file)

\* C8: whenever isLoading is true and a file is selected the scanning view
\* is shown, even if earlier results exist; the results view is shown
\* exactly when isLoading is false and results is non-null.
C8_ScanningAndResultsExclusive ==
  /\ (isLoading /\ file # Null) => View.kind = "scanning"
  /\ View.kind = "results" <=> (~isLoading /\ results # Null)

C8_Witness ==
  isLoading /\ file # Null /\ results # Null /\ View.kind = "scanning"

\* C9 as stated: whenever a file is selected and isLoading is false, the
\* panel shows the preview view of the selected file.
C9_PreviewWhenNotLoading ==
  (file # Null /\ ~isLoading) => View = [kind |-> "preview", name |-> file]

\* C9 amended: whenever a file is selected, isLoading is false and results
\* is null, the panel shows the preview view headed by the selected file;
\* when results is non-null and isLoading is false it shows the results
\* view instead.
C9_PreviewWhenNoResults ==
  /\ (file # Null /\ ~isLoading /\ results = Null) =>
       View = [kind |-> "preview", name |-> file]
  /\ (file # Null /\ ~isLoading /\ results # Null) => View.kind = "results"

C9_Witness ==
  /\ file # Null /\ ~isLoading /\ results = Null
  /\ nSent >= 1
  /\ View.kind = "preview"

\* C10: a drop carrying files selects the first dropped file exactly as
\* choosing it through the file input does (form file and page file are
\* set, no scan is started) and clears dragActive; a drop without files
\* only clears dragActive; dragenter and dragover set dragActive, dragleave
\* clears it.
SelectEffect(f) ==
  /\ uFile' = f /\ file' = f
  /\ UNCHANGED <<jobDescription, isLoading, results, jd, scanPosition,
                 scans, nSent>>

C10_DropSelectsFirstFile ==
  [][ /\ \A fs \in FileDrops :
           handleDrop(fs) => SelectEffect(fs[1]) /\ ~dragActive'
      /\ \A fs \in FileChoices :
           handleChange(fs) => SelectEffect(fs[1]) /\ UNCHANGED dragActive
      /\ handleDrop(<<>>) =>
           /\ ~dragActive'
           /\ UNCHANGED <<file, jobDescription, isLoading, results, uFile,
                          jd, scanPosition, scans, nSent>>
      /\ (handleDrag("dragenter") \/ handleDrag("dragover")) => dragActive'
      /\ handleDrag("dragleave") => ~dragActive'
    ]_vars

C10_Witness ==
  /\ uFile \in Files /\ ~Accepts(uFile)
  /\ file = uFile
  /\ nSent = 0 /\ scans = {}
  /\ ~dragActive
====
